---- MODULE Spec2Model ----
(***************************************************************************)
(* Model of the Mandelbrot / Julia set viewer                              *)
(* (src/src/bin/mandel_julia/main.rs): the DrawParams viewport, the        *)
(* single-threaded event loop that mutates it, and the per-frame octile    *)
(* equalisation over an hdrhistogram Histogram::<u32>::new(3).             *)
(*                                                                         *)
(* f64 bounds are fixed-point integers in units of 1/Scale; an operation   *)
(* is modelled where its f64 result lies on that grid (StepsOnGrid,        *)
(* ScrollOnGrid, PanOnGrid).                                               *)
(***************************************************************************)
EXTENDS Integers, Sequences, FiniteSets, TLC

\* ------------------------------------------------------------ bounds ----
\* Largest multiplicity of one escaped iteration count in an enumerated frame.
MaxCount == 3
\* Number of events the event loop handles in one explored session.
MaxEvents == 3

\* --------------------------------------------------------- constants ----
\* Histogram::<u32>::new(3): 3 significant figures give 2048 sub-buckets,
\* so every value below 2048 has a bucket of its own.
SubBucketCount == 2048
\* The octiles are the quantiles i/8.
Octiles == 8

Min(S) == CHOOSE m \in S : \A o \in S : m <= o
Max(S) == CHOOSE m \in S : \A o \in S : m >= o
MaxOf(a, b) == IF a >= b THEN a ELSE b
MinOf(a, b) == IF a <= b THEN a ELSE b

\* ------------------------------------------- hdrhistogram::Histogram ----
\* Width of the bucket that holds v: 1 below SubBucketCount, doubling with
\* every further power of two.
RECURSIVE size_of_equivalent_value_range(_)
size_of_equivalent_value_range(v) ==
    IF v < SubBucketCount THEN 1
    ELSE 2 * size_of_equivalent_value_range(v \div 2)

lowest_equivalent(v) == v - (v % size_of_equivalent_value_range(v))

\* The first value of the bucket after v's: v + 1 for v < SubBucketCount,
\* whether or not any sample was recorded there.
next_non_equivalentSameBucket(v) ==
    lowest_equivalent(v) + size_of_equivalent_value_range(v) - 1
next_non_equivalent(v) ==
    lowest_equivalent(v) + size_of_equivalent_value_range(v)

highest_equivalent(v) == next_non_equivalent(v) - 1

\* hist.reset(): no counts, total_count 0, max_value 0.
EmptyHist ==
    [counts |-> [v \in {} |-> 0], total_count |-> 0, max_value |-> 0]

\* hist.record(v): one more sample in v's bucket.
record(h, v) ==
    LET idx == lowest_equivalent(v)
        old == DOMAIN h.counts
    IN  [counts |-> [w \in old \cup {idx} |->
                        (IF w \in old THEN h.counts[w] ELSE 0)
                        + (IF w = idx THEN 1 ELSE 0)],
         total_count |-> h.total_count + 1,
         max_value |-> MaxOf(h.max_value, v)]

\* hist.max(): 0 for an empty histogram, else the top of the highest bucket.
histMax(h) ==
    IF h.max_value = 0 THEN 0 ELSE highest_equivalent(h.max_value)

\* hist.count_at(v)
count_at(h, v) ==
    IF lowest_equivalent(v) \in DOMAIN h.counts
    THEN h.counts[lowest_equivalent(v)] ELSE 0

\* The loop of value_at_quantile over the buckets in ascending order: the
\* first bucket at which the running total reaches count_at_quantile, or -1.
RECURSIVE ScanCounts(_, _, _, _)
ScanCounts(h, idxs, total_to_current_index, count_at_quantile) ==
    IF idxs = {} THEN -1
    ELSE LET i == Min(idxs)
             t == total_to_current_index + h.counts[i]
         IN  IF t >= count_at_quantile THEN i
             ELSE ScanCounts(h, idxs \ {i}, t, count_at_quantile)

\* hist.value_at_quantile(num / den): the count to reach is
\* ceil(quantile * total_count), at least 1; quantile 0 answers the bottom
\* of the bucket found, any other quantile its top; 0 when nothing is found.
value_at_quantile(h, num, den) ==
    LET fractional_ceil == (num * h.total_count + den - 1) \div den
        count_at_quantile == IF fractional_ceil = 0 THEN 1 ELSE fractional_ceil
        i == ScanCounts(h, DOMAIN h.counts, 0, count_at_quantile)
    IN  IF i = -1 THEN 0
        ELSE IF num = 0 THEN lowest_equivalent(i) ELSE highest_equivalent(i)

\* ------------------------------------------------- the equalize step ----
\* A sample is the pair (iteration count, flag) of one pixel: s[1] is p.0,
\* s[2] is p.1.  The filter keeps the samples whose flag is not 1.
KeepsAll(s) == TRUE
IsEscaped(s) == s[2] # 1

\* hist.reset(), then hist.record(p.0) for every sample the filter keeps.
RECURSIVE Populate(_, _)
Populate(h, p) ==
    IF p = <<>> THEN h
    ELSE Populate(IF IsEscaped(Head(p)) THEN record(h, Head(p)[1]) ELSE h,
                  Tail(p))

\* (0..=8).map(|i| hist.value_at_quantile(i / 8))
ComputeOctiles(h) == [i \in 0..Octiles |-> value_at_quantile(h, i, Octiles)]

\* One turn of the nudge loop, for index i.
NudgeStepNoMax(oct, i, max) ==
    IF oct[i] = oct[i + 1]
    THEN [oct EXCEPT ![i + 1] = MinOf(next_non_equivalent(oct[i + 1]), max)]
    ELSE oct
NudgeStepNoClamp(oct, i, max) ==
    LET o1 == [oct EXCEPT ![i + 1] = MaxOf(oct[i], oct[i + 1])]
    IN  IF o1[i] = o1[i + 1]
        THEN [o1 EXCEPT ![i + 1] = next_non_equivalent(o1[i + 1])]
        ELSE o1
NudgeStepInverted(oct, i, max) ==
    LET o1 == [oct EXCEPT ![i + 1] = MaxOf(oct[i], oct[i + 1])]
    IN  IF o1[i] # o1[i + 1]
        THEN [o1 EXCEPT ![i + 1] = MinOf(next_non_equivalent(o1[i + 1]), max)]
        ELSE o1
NudgeStep(oct, i, max) ==
    LET o1 == [oct EXCEPT ![i + 1] = MaxOf(oct[i], oct[i + 1])]
    IN  IF o1[i] = o1[i + 1]
        THEN [o1 EXCEPT ![i + 1] = MinOf(next_non_equivalent(o1[i + 1]), max)]
        ELSE o1

\* for i in 0..7 { ... }: i runs over 0..6.
RECURSIVE NudgeFrom(_, _, _)
NudgeFrom(oct, i, max) ==
    IF i >= Octiles - 1 THEN oct
    ELSE NudgeFrom(NudgeStep(oct, i, max), i + 1, max)

\* let max = hist.max(); and the loop.
Nudge(oct, h) == NudgeFrom(oct, 0, histMax(h))

\* The octiles of a frame: populate, quantiles, nudge.
Equalize(p) ==
    LET h == Populate(EmptyHist, p) IN Nudge(ComputeOctiles(h), h)

\* ------------------------------------------------------- DrawParams ----
\* The divisors of scroll and zoom (/ 10.0) and of pan (/ 100.0).
Ten == 10
Hundred == 100
\* Fixed-point units per 1.0 of the complex plane; Fx(n) is the whole
\* number n as a plane coordinate.
Scale == Ten * Ten * Ten * Ten * Ten * Ten
Fx(n) == n * Scale
\* The f64 arguments of scroll and pan, and pointer positions, are in units
\* of 1/Hundred; Num(n) is the whole number n.
Num(n) == n * Hundred
\* JuliaFunction::VARIANTS and ColorScheme::VARIANTS (strum::VariantNames).
JuliaFunctionVariants == <<"Cloud", "Snowflakes", "Other">>
ColorSchemeVariants == <<"Turbo", "Alt">>

\* JuliaFunction::subroutine_name / format!("F{}", ...)
FName(k) == <<"F", JuliaFunctionVariants[k]>>
\* ColorScheme::subroutine_name / format!("ColorMap{}", ...)
ColorMapName(k) == <<"ColorMap", ColorSchemeVariants[k]>>

\* The iteration cap that goes with a function name.
SnowflakesCap == 27
DefaultCap == 1024
CapOf(f) == IF f = <<"F", "Snowflakes">> THEN SnowflakesCap ELSE DefaultCap

WINDOW_WIDTH == 1024
WINDOW_HEIGHT == 768

\* "Colorize" uniform of visit_values
Colorize(dp) ==
    CASE dp.f = <<"F", "Cloud">> -> "ColorizeCloud"
      [] dp.f = <<"F", "Snowflakes">> -> "ColorizeSnowflakes"
      [] OTHER -> "ColorizeDefault"


resetKeepsXMin(dp, is_mandelbrot) ==
    [dp EXCEPT !.x_max = IF is_mandelbrot THEN Fx(1) ELSE Fx(2),
               !.y_min = IF is_mandelbrot THEN Fx(-1) ELSE Fx(-2),
               !.y_max = IF is_mandelbrot THEN Fx(1) ELSE Fx(2)]
reset(dp, is_mandelbrot) ==
    [dp EXCEPT !.x_min = Fx(-2),
               !.x_max = IF is_mandelbrot THEN Fx(1) ELSE Fx(2),
               !.y_min = IF is_mandelbrot THEN Fx(-1) ELSE Fx(-2),
               !.y_max = IF is_mandelbrot THEN Fx(1) ELSE Fx(2)]

\* DrawParams::new
NewDrawParams(is_mandelbrot, julia_function, color_scheme) ==
    reset([x_min |-> 0, x_max |-> 0, y_min |-> 0, y_max |-> 0,
           width |-> WINDOW_WIDTH, height |-> WINDOW_HEIGHT,
           max_iterations |-> CapOf(FName(julia_function)),
           ranges |-> [i \in 0..3 |-> 0],
           ranges_2 |-> [i \in 0..3 |-> 0],
           color_map |-> ColorMapName(color_scheme),
           f |-> FName(julia_function),
           is_mandelbrot |-> is_mandelbrot],
          is_mandelbrot)


\* s_x and s_y of scroll, zoom_in and zoom_out: a tenth of the span.
StepX(dp) == (dp.x_max - dp.x_min) \div Ten
StepY(dp) == (dp.y_max - dp.y_min) \div Ten

scrollUsesMovedXMin(dp, x, y) ==
    LET x0 == dp.x_min + (x * StepX(dp)) \div Hundred
        x1 == dp.x_max + (x * ((dp.x_max - x0) \div Ten)) \div Hundred
    IN  [dp EXCEPT !.x_min = x0, !.x_max = x1,
                   !.y_min = @ + (y * StepY(dp)) \div Hundred,
                   !.y_max = @ + (y * StepY(dp)) \div Hundred]
scrollMixedSteps(dp, x, y) ==
    LET s_x == StepX(dp)
        s_y == StepY(dp)
    IN  [dp EXCEPT !.x_min = @ + (x * s_x) \div Hundred,
                   !.x_max = @ + (x * s_y) \div Hundred,
                   !.y_min = @ + (y * s_y) \div Hundred,
                   !.y_max = @ + (y * s_x) \div Hundred]
scroll(dp, x, y) ==
    LET s_x == StepX(dp)
        s_y == StepY(dp)
    IN  [dp EXCEPT !.x_min = @ + (x * s_x) \div Hundred,
                   !.x_max = @ + (x * s_x) \div Hundred,
                   !.y_min = @ + (y * s_y) \div Hundred,
                   !.y_max = @ + (y * s_y) \div Hundred]

\* pan(x, y): pixel deltas are f64 in units of 1/Hundred as well.
panUndivided(dp, x, y) == scroll(dp, x, y)
pan(dp, x, y) == scroll(dp, x \div Hundred, y \div Hundred)

zoom_in(dp) ==
    LET s_x == StepX(dp)
        s_y == StepY(dp)
    IN  [dp EXCEPT !.x_min = @ + s_x, !.x_max = @ - s_x,
                   !.y_min = @ + s_y, !.y_max = @ - s_y]

zoom_outSymmetricInverse(dp) ==
    LET s_x == (dp.x_max - dp.x_min) \div 8
        s_y == (dp.y_max - dp.y_min) \div 8
    IN  [dp EXCEPT !.x_min = @ - s_x, !.x_max = @ + s_x,
                   !.y_min = @ - s_y, !.y_max = @ + s_y]
zoom_out(dp) ==
    LET s_x == StepX(dp)
        s_y == StepY(dp)
    IN  [dp EXCEPT !.x_min = @ - s_x, !.x_max = @ + s_x,
                   !.y_min = @ - s_y, !.y_max = @ + s_y]

\* The f64 results of the step divisions lie on the fixed-point grid.
StepsOnGrid(dp) ==
    /\ (dp.x_max - dp.x_min) % Ten = 0
    /\ (dp.y_max - dp.y_min) % Ten = 0
ScrollOnGrid(dp, x, y) ==
    /\ StepsOnGrid(dp)
    /\ (x * StepX(dp)) % Hundred = 0
    /\ (y * StepY(dp)) % Hundred = 0
PanOnGrid(dp, x, y) ==
    /\ x % Hundred = 0
    /\ y % Hundred = 0
    /\ ScrollOnGrid(dp, x \div Hundred, y \div Hundred)

Bounds(dp) == <<dp.x_min, dp.x_max, dp.y_min, dp.y_max>>
SpanX(dp) == dp.x_max - dp.x_min
SpanY(dp) == dp.y_max - dp.y_min

\* ------------------------------------------------------------ state ----
VARIABLES
    draw_params,          \* the DrawParams of main
    mouse_down,           \* left button held
    mouse_last,           \* position of the last CursorMoved
    selected_julia_func,  \* index into JuliaFunctionVariants
    selected_color_map,   \* index into ColorSchemeVariants
    hist,                 \* the Histogram
    control_flow,         \* "Wait" or "Exit"
    main_redraw,          \* a RedrawRequested for the main window is due
    params_redraw,        \* a RedrawRequested for the Parameters window is due
    buffer,               \* p: the iteration texture as last read back
    octiles,              \* the 9 octiles of the last main redraw
    ev,                   \* the event handled last
    op,                   \* the DrawParams operation that handler invoked
    requested,            \* that handler called request_redraw on the main window
    pre,                  \* draw_params, mouse_down, mouse_last before that handler
    prev,                 \* ev, op, pre and ev_pos of the event before
    nev,                  \* events handled so far
    windows,              \* cfg!(windows) of the build
    passes,               \* the steps of the last main redraw, in order
    ev_pos                \* the position the last CursorMoved carried

vars == <<draw_params, mouse_down, mouse_last, selected_julia_func,
          selected_color_map, hist, control_flow, main_redraw, params_redraw,
          buffer, octiles, ev, op, requested, pre, prev, nev, windows,
          passes, ev_pos>>

Snapshot == [dp |-> draw_params, mouse_down |-> mouse_down,
             mouse_last |-> mouse_last]

\* main up to event_loop.run: the mode and the function are any the command
\* line can give, the color scheme is its default (the first variant; the
\* Parameters window selects the others), the build is for Windows or not;
\* both windows are exposed once by the window system.
Init ==
    \E is_mandelbrot \in BOOLEAN,
       jf \in 1..Len(JuliaFunctionVariants),
       cs \in {1} :
        /\ windows \in BOOLEAN
        /\ passes = <<>>
        /\ ev_pos = <<0, 0>>
        /\ draw_params = NewDrawParams(is_mandelbrot, jf, cs)
        /\ selected_julia_func = jf
        /\ selected_color_map = cs
        /\ mouse_down = FALSE
        /\ mouse_last = <<0, 0>>
        /\ hist = EmptyHist
        /\ control_flow = "Wait"
        /\ main_redraw = TRUE
        /\ params_redraw = TRUE
        /\ buffer = <<>>
        /\ octiles = [i \in 0..Octiles |-> 0]
        /\ ev = "Init"
        /\ op = "none"
        /\ requested = FALSE
        /\ pre = [dp |-> NewDrawParams(is_mandelbrot, jf, cs),
                  mouse_down |-> FALSE, mouse_last |-> <<0, 0>>]
        /\ prev = [ev |-> "Init", op |-> "none", ev_pos |-> <<0, 0>>,
                   pre |-> [dp |-> NewDrawParams(is_mandelbrot, jf, cs),
                            mouse_down |-> FALSE, mouse_last |-> <<0, 0>>]]
        /\ nev = 0

\* What every handler does to the bookkeeping: e is the event, o the
\* DrawParams operation invoked, r whether the main window's request_redraw
\* was called.
Handled(e, o, r) ==
    /\ control_flow = "Wait"
    /\ nev < MaxEvents
    /\ nev' = nev + 1
    /\ ev' = e
    /\ op' = o
    /\ requested' = r
    /\ pre' = Snapshot
    /\ prev' = [ev |-> ev, op |-> op, ev_pos |-> ev_pos, pre |-> pre]
    /\ windows' = windows
    /\ IF e = "RedrawMain" THEN TRUE ELSE passes' = passes
    /\ IF e = "CursorMoved" THEN TRUE ELSE ev_pos' = ev_pos

\* --------------------------------------------------- frames (inputs) ----
\* Iteration counts of the enumerated frames, ascending.
EscValues == <<0, 1, 2, 5, 9>>

RECURSIVE Repeat(_, _)
Repeat(s, n) == IF n = 0 THEN <<>> ELSE <<s>> \o Repeat(s, n - 1)

RECURSIVE Run(_, _)
Run(m, k) ==
    IF k > Len(EscValues) THEN <<>>
    ELSE Repeat(<<EscValues[k], 0>>, m[k]) \o Run(m, k + 1)

\* Samples with flag 1 placed before and after the escaped ones.
NonEscapedParts ==
    { <<(<<>>), (<<>>)>>,
      <<(<< <<7, 1>> >>), (<<>>)>>,
      <<(<< <<1, 1>> >>), (<< <<1024, 1>>, <<0, 1>> >>)>> }

EnumeratedFrames ==
    { ne[1] \o Run(m, 1) \o ne[2] :
        m \in [1..Len(EscValues) -> 0..MaxCount], ne \in NonEscapedParts }

RECURSIVE Escaping(_)
Escaping(counts) ==
    IF counts = <<>> THEN <<>>
    ELSE << <<Head(counts), 0>> >> \o Escaping(Tail(counts))

\* The 20 escaped counts of the end-to-end scenario.
ScenarioCounts ==
    <<1, 1, 1, 1, 50, 50, 100, 100, 100, 100, 500, 500, 500,
      999, 999, 999, 999, 999, 999, 999>>
ScenarioFrame == Escaping(ScenarioCounts)
\* One escaped sample of 10 and one sample of 9999 that did not escape.
MixedFrame == << <<10, 0>>, <<9999, 1>> >>
\* Nine distinct counts: every octile is a different recorded value.
DistinctFrame == Escaping(<<3, 4, 6, 7, 8, 11, 12, 20, 21>>)

Frames == EnumeratedFrames \cup {ScenarioFrame, MixedFrame, DistinctFrame}

\* The frames the shader produces in a session of the event loop.
SessionFrames ==
    { MixedFrame, << <<1, 0>>, <<1, 0>>, <<5, 0>>, <<3, 1>> >> }

\* ------------------------------------------ Event::RedrawRequested ----
\* hist.reset() and the recording loop, on the histogram h of the frame
\* before.
RepopulateNoReset(h, p) == Populate(h, p)
Repopulate(h, p) == Populate(EmptyHist, p)

\* draw_params.ranges = octiles[0..4]; draw_params.ranges_2 = octiles[4..8]
StoreOctilesAndCap(dp, oct) ==
    [dp EXCEPT !.ranges = [i \in 0..3 |-> oct[i]],
               !.ranges_2 = [i \in 0..3 |-> oct[i + 4]],
               !.max_iterations = oct[Octiles]]
StoreOctiles(dp, oct) ==
    [dp EXCEPT !.ranges = [i \in 0..3 |-> oct[i]],
               !.ranges_2 = [i \in 0..3 |-> oct[i + 4]]]

\* One step of a main redraw: what is done, on what, with which uniforms
\* (the draw_params of that moment).
Step(step, target, dp) == [step |-> step, target |-> target, uniforms |-> dp]

\* The composite: on Windows the shader is run again on the framebuffer and
\* the color texture is blitted to the surface; elsewhere the shader is run
\* on the surface.  old is draw_params as the first draw saw it, new with
\* the octiles stored.
CompositeBlitOnly(w, old, new) ==
    IF w THEN <<Step("blit", "surface", new)>>
    ELSE <<Step("draw", "surface", new)>>
CompositeStale(w, old, new) ==
    IF w THEN <<Step("draw", "framebuffer", old), Step("blit", "surface", old)>>
    ELSE <<Step("draw", "surface", old)>>
Composite(w, old, new) ==
    IF w THEN <<Step("draw", "framebuffer", new), Step("blit", "surface", new)>>
    ELSE <<Step("draw", "surface", new)>>

\* The steps of the RedrawRequested arm of the main window.
FramePassesReadFirst(w, old, new) ==
    <<Step("read", "iteration_texture", old),
      Step("draw", "framebuffer", old),
      Step("equalize", "hist", new)>> \o Composite(w, old, new)
FramePasses(w, old, new) ==
    <<Step("draw", "framebuffer", old),
      Step("read", "iteration_texture", old),
      Step("equalize", "hist", new)>> \o Composite(w, old, new)

\* The main window: draw to the framebuffer, read the iteration texture
\* back (p), rebuild the histogram, compute and nudge the octiles, store
\* octiles[0..4] and octiles[4..8], composite.
RedrawMain(p) ==
    /\ main_redraw
    /\ Handled("RedrawMain", "none", FALSE)
    /\ main_redraw' = FALSE
    /\ buffer' = p
    /\ hist' = Repopulate(hist, p)
    /\ octiles' = Nudge(ComputeOctiles(hist'), hist')
    /\ draw_params' = StoreOctiles(draw_params, octiles')
    /\ passes' = FramePasses(windows, draw_params, draw_params')
    /\ UNCHANGED <<mouse_down, mouse_last, selected_julia_func,
                   selected_color_map, control_flow, params_redraw>>

\* request_redraw on the main window leaves a RedrawRequested due.
Request(r) == main_redraw' = (main_redraw \/ r)

\* The values typed into the x_max field and dragged on the slider.
XMaxInputs == {Fx(3), Fx(-2)}
SliderInputs == {500}

\* The "Mandelbrot mode" checkbox reporting a change to v.
ToggleModeStaleFlag(dp, v) ==
    reset([dp EXCEPT !.is_mandelbrot = v], dp.is_mandelbrot)
ToggleMode(dp, v) == reset([dp EXCEPT !.is_mandelbrot = v], v)

\* The "Julia function" combo reporting the choice of variant k.
SelectFunction(dp, k) ==
    [dp EXCEPT !.f = FName(k), !.max_iterations = CapOf(FName(k))]

\* The Parameters window: one imgui frame.  w is the widget that reports a
\* change in this frame ("none" when no widget does), v its new value.
ControlsFrame(w, v) ==
    /\ params_redraw
    /\ params_redraw' = FALSE
    /\ CASE w = "none" ->
              /\ Handled("RedrawParams", "none", FALSE)
              /\ Request(FALSE)
              /\ UNCHANGED <<draw_params, selected_julia_func, selected_color_map>>
         [] w = "checkbox" ->
              /\ v = ~draw_params.is_mandelbrot
              /\ Handled("RedrawParams", "reset", TRUE)
              /\ Request(TRUE)
              /\ draw_params' = ToggleMode(draw_params, v)
              /\ UNCHANGED <<selected_julia_func, selected_color_map>>
         [] w = "julia_function" ->
              /\ ~draw_params.is_mandelbrot
              /\ v \in 1..Len(JuliaFunctionVariants)
              /\ Handled("RedrawParams", "set_function", TRUE)
              /\ Request(TRUE)
              /\ selected_julia_func' = v
              /\ draw_params' = SelectFunction(draw_params, v)
              /\ UNCHANGED selected_color_map
         [] w = "color_map" ->
              /\ v \in 1..Len(ColorSchemeVariants)
              /\ Handled("RedrawParams", "set_color_map", TRUE)
              /\ Request(TRUE)
              /\ selected_color_map' = v
              /\ draw_params' = [draw_params EXCEPT !.color_map = ColorMapName(v)]
              /\ UNCHANGED selected_julia_func
         [] w = "x_max" ->
              /\ v \in XMaxInputs
              /\ v # draw_params.x_max
              /\ Handled("RedrawParams", "set_x_max", TRUE)
              /\ Request(TRUE)
              /\ draw_params' = [draw_params EXCEPT !.x_max = v]
              /\ UNCHANGED <<selected_julia_func, selected_color_map>>
         [] w = "iterations" ->
              /\ v \in SliderInputs
              /\ v # draw_params.max_iterations
              /\ Handled("RedrawParams", "set_max_iterations", TRUE)
              /\ Request(TRUE)
              /\ draw_params' = [draw_params EXCEPT !.max_iterations = v]
              /\ UNCHANGED <<selected_julia_func, selected_color_map>>
    /\ UNCHANGED <<mouse_down, mouse_last, hist, control_flow, buffer, octiles>>

ControlInputs ==
    ({"none"} \X {0})
    \cup ({"checkbox"} \X BOOLEAN)
    \cup ({"julia_function"} \X (1..Len(JuliaFunctionVariants)))
    \cup ({"color_map"} \X (1..Len(ColorSchemeVariants)))
    \cup ({"x_max"} \X XMaxInputs)
    \cup ({"iterations"} \X SliderInputs)

RedrawParams == \E c \in ControlInputs : ControlsFrame(c[1], c[2])

\* ------------------------------------------------ the other events ----
\* Event::NewEvents: imgui's delta time only.
NewEvents ==
    /\ Handled("NewEvents", "none", FALSE)
    /\ Request(FALSE)
    /\ UNCHANGED <<draw_params, mouse_down, mouse_last, selected_julia_func,
                   selected_color_map, hist, control_flow, params_redraw,
                   buffer, octiles>>

\* Event::MainEventsCleared: request_redraw on the Parameters window.
MainEventsCleared ==
    /\ Handled("MainEventsCleared", "none", FALSE)
    /\ Request(FALSE)
    /\ params_redraw' = TRUE
    /\ UNCHANGED <<draw_params, mouse_down, mouse_last, selected_julia_func,
                   selected_color_map, hist, control_flow, buffer, octiles>>

\* Any WindowEvent of the Parameters window goes to platform.handle_event.
ParamsWindowEvents == {"ParamsCloseRequested", "ParamsInput"}
ParamsWindowEvent(e) ==
    /\ Handled(e, "none", FALSE)
    /\ Request(FALSE)
    /\ UNCHANGED <<draw_params, mouse_down, mouse_last, selected_julia_func,
                   selected_color_map, hist, control_flow, params_redraw,
                   buffer, octiles>>

\* WindowEvent::MouseInput, left button.
MouseInput(pressed) ==
    /\ Handled(IF pressed THEN "MousePressed" ELSE "MouseReleased", "none", FALSE)
    /\ Request(FALSE)
    /\ mouse_down' = pressed
    /\ UNCHANGED <<draw_params, mouse_last, selected_julia_func,
                   selected_color_map, hist, control_flow, params_redraw,
                   buffer, octiles>>

\* Pointer positions of the explored sessions.
Positions == {<<Num(0), Num(0)>>, <<Num(100), Num(50)>>}

\* if mouse_down { request_redraw(); pan(...) }
PansAlways(down) == TRUE
Pans(down) == down

\* The arguments of that pan: (mouse_last.0 - position.x,
\* position.y - mouse_last.1).
PanDeltaFromOrigin(last, position) == <<0 - position[1], position[2]>>
PanDelta(last, position) == <<last[1] - position[1], position[2] - last[2]>>

\* WindowEvent::CursorMoved
CursorMoved(position) ==
    /\ IF Pans(mouse_down)
       THEN /\ PanOnGrid(draw_params, PanDelta(mouse_last, position)[1],
                         PanDelta(mouse_last, position)[2])
            /\ Handled("CursorMoved", "pan", TRUE)
            /\ Request(TRUE)
            /\ draw_params' = pan(draw_params,
                                  PanDelta(mouse_last, position)[1],
                                  PanDelta(mouse_last, position)[2])
       ELSE /\ Handled("CursorMoved", "none", FALSE)
            /\ Request(FALSE)
            /\ UNCHANGED draw_params
    /\ mouse_last' = position
    /\ ev_pos' = position
    /\ UNCHANGED <<mouse_down, selected_julia_func, selected_color_map, hist,
                   control_flow, params_redraw, buffer, octiles>>

\* WindowEvent::MouseWheel, LineDelta(_x, y), phase Moved.
WheelEvent(y) ==
    CASE y < 0 -> "WheelNegative" [] y > 0 -> "WheelPositive" [] OTHER -> "WheelZero"
WheelZoom(dp, y) == IF y < 0 THEN zoom_out(dp) ELSE zoom_in(dp)
MouseWheel(y) ==
    /\ StepsOnGrid(draw_params)
    /\ Handled(WheelEvent(y), IF y < 0 THEN "zoom_out" ELSE "zoom_in", TRUE)
    /\ Request(TRUE)
    /\ draw_params' = WheelZoom(draw_params, y)
    /\ UNCHANGED <<mouse_down, mouse_last, selected_julia_func,
                   selected_color_map, hist, control_flow, params_redraw,
                   buffer, octiles>>

\* WindowEvent::KeyboardInput, state Pressed.
MappedKeys == {"KeyMinus", "KeyEquals", "KeySpace", "KeyUp", "KeyLeft",
               "KeyRight", "KeyDown"}
\* Another key code, and an input without virtual_keycode.
UnmappedKeys == {"KeyOther", "KeyNone"}

KeyOp(k) ==
    CASE k = "KeyMinus" -> "zoom_out"
      [] k = "KeyEquals" -> "zoom_in"
      [] k = "KeySpace" -> "reset"
      [] OTHER -> "scroll"

KeyEffectUpDownSwapped(dp, k) ==
    CASE k = "KeyMinus" -> zoom_out(dp)
      [] k = "KeyEquals" -> zoom_in(dp)
      [] k = "KeySpace" -> reset(dp, dp.is_mandelbrot)
      [] k = "KeyUp" -> scroll(dp, Num(0), Num(1))
      [] k = "KeyLeft" -> scroll(dp, Num(-1), Num(0))
      [] k = "KeyRight" -> scroll(dp, Num(1), Num(0))
      [] k = "KeyDown" -> scroll(dp, Num(0), Num(-1))
KeyEffect(dp, k) ==
    CASE k = "KeyMinus" -> zoom_out(dp)
      [] k = "KeyEquals" -> zoom_in(dp)
      [] k = "KeySpace" -> reset(dp, dp.is_mandelbrot)
      [] k = "KeyUp" -> scroll(dp, Num(0), Num(-1))
      [] k = "KeyLeft" -> scroll(dp, Num(-1), Num(0))
      [] k = "KeyRight" -> scroll(dp, Num(1), Num(0))
      [] k = "KeyDown" -> scroll(dp, Num(0), Num(1))

KeyboardInput(k) ==
    /\ IF k \in MappedKeys
       THEN /\ k = "KeySpace" \/ StepsOnGrid(draw_params)
            /\ Handled(k, KeyOp(k), TRUE)
            /\ Request(TRUE)
            /\ draw_params' = KeyEffect(draw_params, k)
       ELSE /\ Handled(k, "none", FALSE)
            /\ Request(FALSE)
            /\ UNCHANGED draw_params
    /\ UNCHANGED <<mouse_down, mouse_last, selected_julia_func,
                   selected_color_map, hist, control_flow, params_redraw,
                   buffer, octiles>>

\* WindowEvent::CloseRequested of the main window.
CloseRequested ==
    /\ Handled("CloseRequested", "none", FALSE)
    /\ Request(FALSE)
    /\ control_flow' = "Exit"
    /\ UNCHANGED <<draw_params, mouse_down, mouse_last, selected_julia_func,
                   selected_color_map, hist, params_redraw, buffer, octiles>>

\* Every other WindowEvent of the main window (key released, another mouse
\* button, a pixel-delta wheel, ...): the `_ => {}` arm.
IgnoredWindowEvent ==
    /\ Handled("Ignored", "none", FALSE)
    /\ Request(FALSE)
    /\ UNCHANGED <<draw_params, mouse_down, mouse_last, selected_julia_func,
                   selected_color_map, hist, control_flow, params_redraw,
                   buffer, octiles>>

\* ---------------------------------------------------- specifications ----
RedrawMainSession == \E p \in SessionFrames : RedrawMain(p)
MouseInputAny == \E pressed \in BOOLEAN : MouseInput(pressed)
CursorMovedAny == \E position \in Positions : CursorMoved(position)
MouseWheelAny == \E y \in {-1, 0, 1} : MouseWheel(y)
KeyboardInputAny == \E k \in MappedKeys \cup UnmappedKeys : KeyboardInput(k)
ParamsWindowEventAny == \E e \in ParamsWindowEvents : ParamsWindowEvent(e)

\* The event loop.
Next ==
    \/ NewEvents
    \/ MainEventsCleared
    \/ RedrawMainSession
    \/ RedrawParams
    \/ ParamsWindowEventAny
    \/ MouseInputAny
    \/ CursorMovedAny
    \/ MouseWheelAny
    \/ KeyboardInputAny
    \/ CloseRequested
    \/ IgnoredWindowEvent

Spec == Init /\ [][Next]_vars

\* The equalize step alone: the first redraw of a viewer started without
\* arguments, over every frame of Frames.
InitEq ==
    /\ Init
    /\ ~draw_params.is_mandelbrot
    /\ selected_julia_func = 1
    /\ selected_color_map = 1

RedrawMainFrame == \E p \in Frames : RedrawMain(p)

NextEq == RedrawMainFrame

SpecEq == InitEq /\ [][NextEq]_vars

\* ------------------------------------------------------------ claims ----
\* A main redraw has just run its equalize step.
Equalized == ev = "RedrawMain"

\* The iteration counts the histogram holds, and the largest of them.
Recorded == DOMAIN hist.counts
RecordedMax == IF Recorded = {} THEN 0 ELSE Max(Recorded)

\* The quantile i/8 of the histogram, before the nudge.
Quantile(i) == value_at_quantile(hist, i, Octiles)

\* The nudge loop found octiles[i] == octiles[i + 1] at index i: indices up
\* to i are final by then and index i + 1 still holds its quantile.
Duplicate(i) == Quantile(i + 1) <= octiles[i]

\* C1: after an equalize step over any frame, the empty one included, the 9
\* thresholds are non-decreasing: T[i] <= T[i+1] for i in 0..7.
C1_NonDecreasing ==
    Equalized => \A i \in 0..(Octiles - 1) : octiles[i] <= octiles[i + 1]

\* C1 witness: a frame with escaped samples in which the nudge raised a
\* duplicate quantile and a later quantile was lifted to the nudged value.
C1_Witness ==
    /\ Equalized
    /\ hist.total_count > 0
    /\ \E i \in 0..(Octiles - 2) :
          /\ Duplicate(i)
          /\ octiles[i] < octiles[i + 1]
          /\ Quantile(i + 2) < octiles[i + 1]

\* The smallest recorded count strictly above d, or the largest recorded
\* count when there is none.
NextRecordedAbove(d) ==
    IF \E v \in Recorded : v > d
    THEN Min({v \in Recorded : v > d})
    ELSE RecordedMax

\* C2 as stated: a nudged threshold is the smallest recorded count strictly
\* greater than the duplicate, or the maximum recorded count.
C2_Original ==
    (Equalized /\ hist.total_count > 0) =>
        \A i \in 0..(Octiles - 2) :
            Duplicate(i) => octiles[i + 1] = NextRecordedAbove(octiles[i])

\* C2 as amended: a nudged threshold is the duplicate plus one (the next
\* value at the histogram's resolution, recorded or not), or the maximum
\* recorded count when that is smaller.
C2_NextValueClamped ==
    (Equalized /\ hist.total_count > 0) =>
        \A i \in 0..(Octiles - 2) :
            Duplicate(i) =>
                octiles[i + 1] = MinOf(octiles[i] + 1, RecordedMax)

\* C2 witness: a duplicate was nudged to a count that no sample has.
C2_Witness ==
    /\ Equalized
    /\ \E i \in 0..(Octiles - 2) :
          /\ Duplicate(i)
          /\ octiles[i + 1] > octiles[i]
          /\ octiles[i + 1] \notin Recorded
          /\ octiles[i + 1] < RecordedMax

\* The samples of p whose flag does not mark them as non-escaped.
EscapedFlag(s) == s[2] # 1
EscapedSamples(p) == SelectSeq(p, EscapedFlag)
Counts(p) == {p[k][1] : k \in 1..Len(p)}

\* C3: the thresholds of a frame are those of the same frame with its
\* non-escaped samples removed; (10, escaped), (9999, non-escaped) gives
\* thresholds that are all 10.
C3_NonEscapedIgnored ==
    Equalized =>
        /\ octiles = Equalize(EscapedSamples(buffer))
        /\ hist = Populate(EmptyHist, EscapedSamples(buffer))
        /\ Recorded = Counts(EscapedSamples(buffer))
        /\ buffer = MixedFrame => \A i \in 0..Octiles : octiles[i] = 10

\* C3 witness: a frame whose non-escaped samples hold a count above and a
\* count below every escaped one.
C3_Witness ==
    /\ Equalized
    /\ hist.total_count > 0
    /\ \E k \in 1..Len(buffer) :
          buffer[k][2] = 1 /\ buffer[k][1] > RecordedMax
    /\ \E k \in 1..Len(buffer) :
          buffer[k][2] = 1 /\ buffer[k][1] < Min(Recorded)

\* C4: a frame without escaped samples leaves all 9 thresholds 0 and both
\* stored groups [0, 0, 0, 0].
C4_EmptyGivesZero ==
    (Equalized /\ EscapedSamples(buffer) = <<>>) =>
        /\ \A i \in 0..Octiles : octiles[i] = 0
        /\ \A i \in 0..3 : draw_params.ranges[i] = 0
        /\ \A i \in 0..3 : draw_params.ranges_2[i] = 0

\* C4 witness: a frame of non-escaped samples only has been equalized.
C4_Witness ==
    /\ Equalized
    /\ buffer # <<>>
    /\ EscapedSamples(buffer) = <<>>
    /\ hist.total_count = 0

\* C5: the 20 counts of the scenario give T[0] <= 1, T[8] = 999 and no two
\* equal adjacent thresholds other than at 999.
C5_Scenario ==
    (Equalized /\ buffer = ScenarioFrame) =>
        /\ octiles[0] <= 1
        /\ octiles[Octiles] = 999
        /\ \A i \in 0..(Octiles - 1) :
              octiles[i] = octiles[i + 1] => octiles[i] = 999

\* C5 witness: the scenario was equalized, with nudged thresholds in it.
C5_Witness ==
    /\ Equalized
    /\ buffer = ScenarioFrame
    /\ hist.total_count = 20
    /\ \E i \in 0..(Octiles - 2) : Duplicate(i) /\ octiles[i + 1] < 999

MandelbrotWindow == <<Fx(-2), Fx(1), Fx(-1), Fx(1)>>
JuliaWindow == <<Fx(-2), Fx(2), Fx(-2), Fx(2)>>

\* C6: reset(true) leaves the bounds (-2, 1, -1, 1) and reset(false) leaves
\* (-2, 2, -2, 2), whatever the viewport was before; both callers pass the
\* mode flag the viewport holds after the call.
C6_ResetCanonical ==
    op = "reset" =>
        Bounds(draw_params) =
            IF draw_params.is_mandelbrot THEN MandelbrotWindow ELSE JuliaWindow

\* C6 witness: a reset to the Julia window from a Mandelbrot viewport none
\* of whose four bounds had the value the reset gives it.
C6_Witness ==
    /\ op = "reset"
    /\ pre.dp.is_mandelbrot
    /\ ~draw_params.is_mandelbrot
    /\ \A k \in 1..4 : Bounds(pre.dp)[k] # JuliaWindow[k]

\* C7: scroll(1, 0) adds a tenth of the span before the call to x_min and
\* to x_max and leaves y_min and y_max alone; scroll(0, 0) changes no bound.
C7_ScrollUnit ==
    /\ ev = "KeyRight" =>
          /\ Ten * (draw_params.x_min - pre.dp.x_min) = SpanX(pre.dp)
          /\ Ten * (draw_params.x_max - pre.dp.x_max) = SpanX(pre.dp)
          /\ draw_params.y_min = pre.dp.y_min
          /\ draw_params.y_max = pre.dp.y_max
    /\ (op = "pan" /\ mouse_last = pre.mouse_last) =>
          Bounds(draw_params) = Bounds(pre.dp)

\* C7 witness: a scroll(1, 0) by the Right key, then a pan by (0, 0) of the
\* window it left, which is not a canonical one.
C7_Witness ==
    /\ prev.ev = "KeyRight"
    /\ SpanX(prev.pre.dp) > 0
    /\ op = "pan"
    /\ mouse_last = pre.mouse_last
    /\ Bounds(pre.dp) \notin {MandelbrotWindow, JuliaWindow}

\* zoom_in was the operation of the event before, zoom_out of this one.
ZoomInThenOut == prev.op = "zoom_in" /\ op = "zoom_out"

\* C8 as stated: zoom_in then zoom_out does not restore the span; zoom_in
\* multiplies each span by 0.8 and zoom_out the reduced span by 1.16.
C8_Original ==
    ZoomInThenOut =>
        /\ 5 * SpanX(pre.dp) = 4 * SpanX(prev.pre.dp)
        /\ 5 * SpanY(pre.dp) = 4 * SpanY(prev.pre.dp)
        /\ 25 * SpanX(draw_params) = 29 * SpanX(pre.dp)
        /\ 25 * SpanY(draw_params) = 29 * SpanY(pre.dp)
        /\ SpanX(draw_params) # SpanX(prev.pre.dp)
        /\ SpanY(draw_params) # SpanY(prev.pre.dp)

\* C8 as amended: zoom_in multiplies each span by 0.8 and the following
\* zoom_out multiplies the reduced span by 1.2, a net 0.96, so that a span
\* other than 0 is not restored.
C8_ZoomInThenOut ==
    ZoomInThenOut =>
        /\ 5 * SpanX(pre.dp) = 4 * SpanX(prev.pre.dp)
        /\ 5 * SpanY(pre.dp) = 4 * SpanY(prev.pre.dp)
        /\ 5 * SpanX(draw_params) = 6 * SpanX(pre.dp)
        /\ 5 * SpanY(draw_params) = 6 * SpanY(pre.dp)
        /\ SpanX(prev.pre.dp) # 0 => SpanX(draw_params) # SpanX(prev.pre.dp)
        /\ SpanY(prev.pre.dp) # 0 => SpanY(draw_params) # SpanY(prev.pre.dp)

\* C8 witness: zoom_in then zoom_out on a window with both spans positive
\* that an earlier event had moved off the canonical ones.
C8_Witness ==
    /\ ZoomInThenOut
    /\ SpanX(prev.pre.dp) > 0
    /\ SpanY(prev.pre.dp) > 0
    /\ Bounds(prev.pre.dp) \notin {MandelbrotWindow, JuliaWindow}

\* The checkbox changed the mode from Mandelbrot to Julia.
ToJulia ==
    /\ ev = "RedrawParams"
    /\ pre.dp.is_mandelbrot
    /\ ~draw_params.is_mandelbrot

\* C9 as stated: a change from Mandelbrot to Julia leaves the Julia window
\* and max_iterations at the cap of the selected function.
C9_Original ==
    ToJulia =>
        /\ Bounds(draw_params) = JuliaWindow
        /\ draw_params.max_iterations = CapOf(draw_params.f)

\* C9 as amended: a change from Mandelbrot to Julia leaves the Julia window
\* and keeps max_iterations and the function as they were; max_iterations
\* becomes the cap of a function (27 for Snowflakes, 1024 otherwise) when
\* the function combo reports a selection.
C9_ModeChange ==
    /\ ToJulia =>
          /\ Bounds(draw_params) = JuliaWindow
          /\ draw_params.max_iterations = pre.dp.max_iterations
          /\ draw_params.f = pre.dp.f
    /\ op = "set_function" =>
          /\ draw_params.f = FName(selected_julia_func)
          /\ draw_params.max_iterations =
                IF JuliaFunctionVariants[selected_julia_func] = "Snowflakes"
                THEN 27 ELSE 1024

\* C9 witness: the mode changed to Julia while max_iterations, set on the
\* slider, was not the cap of the selected function.
C9_Witness ==
    /\ ToJulia
    /\ prev.op = "none"
    /\ draw_params.max_iterations # CapOf(draw_params.f)

\* The operations that mutate the viewport.
Mutators == {"pan", "scroll", "zoom_in", "zoom_out", "reset", "set_function",
             "set_color_map", "set_x_max", "set_max_iterations"}

\* The events that change nothing: the periodic ones, a pointer move with
\* the button up, an unmapped key, a frame in which no control changed.
ChangesNothing ==
    \/ ev \in {"NewEvents", "MainEventsCleared", "KeyOther", "KeyNone",
               "Ignored", "ParamsInput", "ParamsCloseRequested"}
    \/ ev = "CursorMoved" /\ ~pre.mouse_down
    \/ ev = "RedrawParams" /\ op = "none"

\* C10: a handler calls request_redraw on the main window, and a main
\* redraw becomes due, only when it ran a viewport mutator (pan, scroll,
\* zoom, reset, a selector or field set by a control); the periodic events
\* and the events that change nothing leave the viewport as it was, request
\* nothing and make no redraw due.
C10_RedrawOnlyOnMutation ==
    [][/\ requested' => op' \in Mutators
       /\ (~main_redraw /\ main_redraw') => (requested' /\ op' \in Mutators)
       /\ ChangesNothing' =>
             /\ ~requested'
             /\ draw_params' = draw_params
             /\ main_redraw' = main_redraw]_vars

\* C10 witness: a pointer move with the button up, once the first frame is
\* drawn: nothing requested, no redraw due.
C10_Witness ==
    /\ ev = "CursorMoved"
    /\ ~pre.mouse_down
    /\ mouse_last # pre.mouse_last
    /\ ~requested
    /\ ~main_redraw

\* C11: a close request on either window, the main one or the Parameters
\* one, makes the event loop exit.
C11_CloseExits ==
    ev \in {"CloseRequested", "ParamsCloseRequested"} => control_flow = "Exit"

\* C12: in every viewport state x_max > x_min and y_max > y_min.
C12_PositiveSpans ==
    /\ draw_params.x_max > draw_params.x_min
    /\ draw_params.y_max > draw_params.y_min

\* The indices of the steps of the last main redraw that did `step` on
\* `target`.
StepsOn(step, target) ==
    {i \in DOMAIN passes : passes[i].step = step /\ passes[i].target = target}

\* The runs of the shader in the last main redraw.
Draws == {i \in DOMAIN passes : passes[i].step = "draw"}

\* The steps that put the picture on the visible surface.
OnSurface == {i \in DOMAIN passes : passes[i].target = "surface"}

\* C13, as stated: a main redraw runs the offscreen render, the readback,
\* the equalize step and the composite exactly once each, in that order.
C13_Original ==
    Equalized =>
        /\ Cardinality(StepsOn("draw", "framebuffer")) = 1
        /\ Cardinality(StepsOn("read", "iteration_texture")) = 1
        /\ Cardinality(StepsOn("equalize", "hist")) = 1
        /\ Cardinality(OnSurface) = 1
        /\ passes[1].target = "framebuffer"
        /\ passes[2].step = "read"
        /\ passes[3].step = "equalize"
        /\ passes[Len(passes)].target = "surface"

\* C13: a main redraw runs, inside one handler, the offscreen render with
\* the thresholds of the frame before, the readback, the equalize step and
\* the composite in that order; the readback, the equalize step and the
\* step that reaches the visible surface run exactly once; the offscreen
\* render runs once where the composite draws on the surface, and a second
\* time, after the equalize step and before the blit, on Windows.  Between
\* two events the cycle is never part done.
C13_CycleOrder ==
    /\ passes = <<>> \/ passes[Len(passes)].target = "surface"
    /\ Equalized =>
        /\ passes[1] = Step("draw", "framebuffer", pre.dp)
        /\ passes[2].step = "read"
        /\ passes[3].step = "equalize"
        /\ StepsOn("read", "iteration_texture") = {2}
        /\ StepsOn("equalize", "hist") = {3}
        /\ OnSurface = {Len(passes)}
        /\ StepsOn("draw", "framebuffer") = IF windows THEN {1, 4} ELSE {1}
        /\ Len(passes) = IF windows THEN 5 ELSE 4

\* C13 witness: a redraw of the Windows build that stored new thresholds:
\* five steps, the offscreen render among them twice.
C13_Witness ==
    /\ Equalized
    /\ windows
    /\ Len(passes) = 5
    /\ draw_params.ranges_2 # pre.dp.ranges_2

\* C14, as stated: where the composite blits, the shader runs exactly once
\* in a redraw.
C14_Original == (Equalized /\ windows) => Cardinality(Draws) = 1

\* C14: where the composite blits (Windows), the shader runs exactly twice
\* in a redraw, both times on the framebuffer: once before the readback and
\* once more in the composite, with the thresholds just stored, before the
\* color texture is copied to the surface; it never runs on the surface.
C14_BlitPathDrawsTwice ==
    (Equalized /\ windows) =>
        /\ Draws = {1, 4}
        /\ passes[1] = Step("draw", "framebuffer", pre.dp)
        /\ passes[4] = Step("draw", "framebuffer", draw_params)
        /\ passes[5].step = "blit"
        /\ passes[5].target = "surface"
        /\ StepsOn("draw", "surface") = {}

\* C14 witness: a redraw on Windows whose second run of the shader saw
\* other thresholds than its first.
C14_Witness ==
    /\ Equalized
    /\ windows
    /\ Len(passes) > 3
    /\ passes[4].step = "draw"
    /\ passes[4].uniforms.ranges # passes[1].uniforms.ranges

\* The uniforms but the two threshold groups.
NonThreshold(dp) ==
    [dp EXCEPT !.ranges = [i \in 0..3 |-> 0], !.ranges_2 = [i \in 0..3 |-> 0]]

\* C15: where the composite draws on the surface (not Windows), that second
\* run of the shader has the thresholds the equalize step of the same redraw
\* computed, octiles[0..4] and octiles[4..8] of the frame just read back,
\* and the bounds and selectors of the offscreen pass.
C15_SecondPassUsesNewThresholds ==
    (Equalized /\ ~windows) =>
        /\ Draws = {1, 4}
        /\ passes[4].target = "surface"
        /\ passes[4].uniforms.ranges = [i \in 0..3 |-> Equalize(buffer)[i]]
        /\ passes[4].uniforms.ranges_2 =
              [i \in 0..3 |-> Equalize(buffer)[i + 4]]
        /\ NonThreshold(passes[4].uniforms) = NonThreshold(passes[1].uniforms)

\* C15 witness: a redraw off Windows whose equalize step changed the
\* thresholds between the two runs of the shader.
C15_Witness ==
    /\ Equalized
    /\ ~windows
    /\ Len(passes) = 4
    /\ passes[4].uniforms.ranges_2 # passes[1].uniforms.ranges_2
    /\ passes[4].uniforms.ranges_2 = draw_params.ranges_2

\* C16: the thresholds a redraw stores are a function of the buffer it read
\* back and of nothing else: they are the octiles of a histogram that holds
\* that buffer's escaped samples only, whatever the frames before recorded,
\* so two redraws of the same buffer store the same groups.
C16_FunctionOfBuffer ==
    Equalized =>
        /\ draw_params.ranges = [i \in 0..3 |-> Equalize(buffer)[i]]
        /\ draw_params.ranges_2 = [i \in 0..3 |-> Equalize(buffer)[i + 4]]
        /\ hist = Populate(EmptyHist, buffer)

\* C16 witness: a second redraw of a session, the first of which recorded
\* another buffer and stored other thresholds.
C16_Witness ==
    /\ Equalized
    /\ pre.dp.ranges_2 # [i \in 0..3 |-> 0]
    /\ pre.dp.ranges_2 # draw_params.ranges_2
    /\ draw_params.ranges_2 # [i \in 0..3 |-> 0]

\* C17: a main redraw changes of the viewport the two threshold groups and
\* nothing else: bounds, pixel dimensions, max_iterations, mode, function
\* and color scheme are after it what they were before, and every run of the
\* shader in it had them.
C17_OnlyThresholdsChange ==
    Equalized =>
        /\ NonThreshold(draw_params) = NonThreshold(pre.dp)
        /\ \A i \in Draws :
              NonThreshold(passes[i].uniforms) = NonThreshold(pre.dp)
        /\ mouse_down = pre.mouse_down
        /\ mouse_last = pre.mouse_last

\* C17 witness: a redraw that stored other thresholds than it found, of a
\* viewport that is not the one the program starts with.
C17_Witness ==
    /\ Equalized
    /\ draw_params.ranges # pre.dp.ranges
    /\ prev.op \in {"zoom_in", "zoom_out", "scroll"}
    /\ Cardinality(Draws) = 2

\* C18: a wheel line delta zooms out exactly when its y is negative and
\* zooms in exactly when its y is positive; a y of 0 does neither.
C18_WheelSign ==
    /\ ev = "WheelNegative" =>
          (op = "zoom_out" /\ draw_params = zoom_out(pre.dp))
    /\ ev = "WheelPositive" =>
          (op = "zoom_in" /\ draw_params = zoom_in(pre.dp))
    /\ ev = "WheelZero" => (op = "none" /\ draw_params = pre.dp)

\* C19: a pressed key acts by this table: Minus zoom_out, Equals zoom_in,
\* Space reset to the current mode, Left and Right scroll(-1, 0) and
\* scroll(1, 0), Up and Down scroll(0, -1) and scroll(0, 1); each of these
\* requests one redraw of the main window; any other key, and an input
\* without key code, leaves the viewport as it was and requests nothing.
C19_KeyMapping ==
    /\ ev = "KeyMinus" => draw_params = zoom_out(pre.dp)
    /\ ev = "KeyEquals" => draw_params = zoom_in(pre.dp)
    /\ ev = "KeySpace" => draw_params = reset(pre.dp, pre.dp.is_mandelbrot)
    /\ ev = "KeyLeft" => draw_params = scroll(pre.dp, Num(-1), Num(0))
    /\ ev = "KeyRight" => draw_params = scroll(pre.dp, Num(1), Num(0))
    /\ ev = "KeyUp" => draw_params = scroll(pre.dp, Num(0), Num(-1))
    /\ ev = "KeyDown" => draw_params = scroll(pre.dp, Num(0), Num(1))
    /\ ev \in MappedKeys => (requested /\ main_redraw)
    /\ ev \in UnmappedKeys => (draw_params = pre.dp /\ ~requested)

\* C19 witness: Up pressed, then Down, on a viewport whose rows the first
\* moved down and the second moved back up.
C19_Witness ==
    /\ ev = "KeyDown"
    /\ prev.ev = "KeyUp"
    /\ requested
    /\ pre.dp.y_min < prev.pre.dp.y_min
    /\ draw_params.y_min > pre.dp.y_min

\* C20: a pointer move changes the bounds only while the left button is
\* held, and then by pan(last.x - new.x, new.y - last.y), which is scroll of
\* both divided by 100; last is the position of the pointer move before,
\* every move setting it, button held or not.
C20_DragPans ==
    ev = "CursorMoved" =>
        LET last == prev.ev_pos
            dx == last[1] - ev_pos[1]
            dy == ev_pos[2] - last[2]
        IN  /\ pre.mouse_last = last
            /\ mouse_last = ev_pos
            /\ IF pre.mouse_down
               THEN /\ draw_params = pan(pre.dp, dx, dy)
                    /\ draw_params =
                          scroll(pre.dp, dx \div Hundred, dy \div Hundred)
               ELSE draw_params = pre.dp

\* C20 witness: a drag that starts where a move with the button up left the
\* pointer, not at the origin, and moves the window in both directions.
C20_Witness ==
    /\ ev = "CursorMoved"
    /\ pre.mouse_down
    /\ prev.ev = "MousePressed"
    /\ prev.ev_pos # <<0, 0>>
    /\ ev_pos # prev.ev_pos
    /\ draw_params.x_min # pre.dp.x_min
    /\ draw_params.y_min # pre.dp.y_min

EscapedCounts == Counts(EscapedSamples(buffer))

\* C22: when the frame has escaped samples, every threshold of the equalize
\* step lies between the least and the greatest count recorded, T[8] is the
\* greatest, and the nudge puts no threshold above it.
C22_WithinRecordedRange ==
    (Equalized /\ EscapedCounts # {}) =>
        /\ \A i \in 0..Octiles :
              /\ Min(EscapedCounts) <= octiles[i]
              /\ octiles[i] <= Max(EscapedCounts)
        /\ octiles[Octiles] = Max(EscapedCounts)

\* C22 witness: a frame of several counts whose quantiles 6/8 and 7/8 are
\* both the greatest count: the nudge of T[7] is cut back to it.
C22_Witness ==
    /\ Equalized
    /\ Cardinality(EscapedCounts) > 1
    /\ octiles[0] < RecordedMax
    /\ Quantile(Octiles - 2) = RecordedMax
    /\ octiles[Octiles - 1] = RecordedMax
    /\ next_non_equivalent(RecordedMax) > RecordedMax

====
